---------------------------- MODULE Spec2Model ----------------------------
(***************************************************************************)
(* Model of fvh3t.core.trajectory_layer.TrajectoryLayer: construction      *)
(* (validation, timestamp-unit inference, create_trajectories) together    *)
(* with the TrajectoryNode / Trajectory types of fvh3t.core.trajectory     *)
(* that create_trajectories instantiates.                                  *)
(*                                                                         *)
(* Raw timestamps reach 13 and more decimal digits, so an integer is kept  *)
(* as a sign and a sequence of decimal digits (most significant first, no  *)
(* leading zero) rather than as a machine integer.                         *)
(***************************************************************************)
EXTENDS Integers, Sequences, FiniteSets, TLC

VARIABLES
    layer,            \* the QgsVectorLayer handed to the constructor
    timestamp_unit,   \* the constructor's timestamp_unit argument
    map_units,        \* self.__map_units
    timestamp_units,  \* self.__timestamp_units
    trajectories,     \* self.__trajectories
    is_valid_ret,     \* what self.is_valid() returned ("none" before / on raise)
    exception,        \* the exception that left the constructor, or NoException
    sampled,          \* whether getFeature(1) was read for the inference
    pc                \* position inside TrajectoryLayer.__init__

vars == <<layer, timestamp_unit, map_units, timestamp_units, trajectories,
          is_valid_ret, exception, sampled, pc>>

-----------------------------------------------------------------------------
(* Bounds of the model *)

MaxRecords == 2
MaxDigits == 13

-----------------------------------------------------------------------------
(* Program constant *)

UNIX_TIMESTAMP_UNIT_THRESHOLD == 13

-----------------------------------------------------------------------------
(* Decimal integers as sign + digits *)

RECURSIVE Repeat(_, _)
Repeat(d, n) == IF n = 0 THEN <<>> ELSE <<d>> \o Repeat(d, n - 1)

Num(neg, ds) == [neg |-> neg, digits |-> ds]

IsZero(v) == v.digits = <<0>>

\* lexicographic comparison of two digit strings of the same length
RECURSIVE LexLess(_, _)
LexLess(a, b) ==
    IF a = <<>> THEN FALSE
    ELSE IF Head(a) # Head(b) THEN Head(a) < Head(b)
    ELSE LexLess(Tail(a), Tail(b))

\* a < b for magnitudes (digit strings without leading zeros)
MagLess(a, b) ==
    IF Len(a) # Len(b) THEN Len(a) < Len(b) ELSE LexLess(a, b)

\* a < b for signed integers
NumLess(a, b) ==
    CASE a.neg /\ ~b.neg -> ~(IsZero(a) /\ IsZero(b))
      [] ~a.neg /\ b.neg -> FALSE
      [] ~a.neg /\ ~b.neg -> MagLess(a.digits, b.digits)
      [] OTHER -> MagLess(b.digits, a.digits)

NumLeq(a, b) == ~NumLess(b, a)

-----------------------------------------------------------------------------
(* Types of fvh3t.core.trajectory and the exceptions *)

\* the fields of the TrajectoryNode NamedTuple, in declaration order
TrajectoryNodeFields == <<"point", "timestamp">>

\* the parameters of Trajectory.__init__ after self
TrajectoryInitParams == <<"nodes">>

NoException == [type |-> "None", msg |-> ""]

InvalidLayerException(msg) == [type |-> "InvalidLayerException", msg |-> msg]

TypeError(msg) == [type |-> "TypeError", msg |-> msg]

ValueError(msg) == [type |-> "ValueError", msg |-> msg]

\* TrajectoryNode(*args): a NamedTuple takes exactly one value per field
TrajectoryNode(args) ==
    IF Len(args) = Len(TrajectoryNodeFields)
    THEN [exc |-> NoException, value |-> args]
    ELSE [exc |-> TypeError("TrajectoryNode.__new__() positional arguments"),
          value |-> <<>>]

\* Trajectory(*args): __init__ stores its single argument as the node tuple
Trajectory(args) ==
    IF Len(args) = Len(TrajectoryInitParams)
    THEN [exc |-> NoException, value |-> [nodes |-> args[1]]]
    ELSE [exc |-> TypeError("Trajectory.__init__() positional arguments"),
          value |-> [nodes |-> <<>>]]

-----------------------------------------------------------------------------
(* The layer handed to the constructor *)

id_field == "id"
timestamp_field == "timestamp"
width_field == "width"
length_field == "length"
height_field == "height"

FieldNames == {id_field, timestamp_field, width_field, length_field, height_field}

\* QgsField.displayType() of a field, or "absent" when indexFromName is -1
FieldTypes == {"absent", "integer", "double", "string"}

GeometryTypes == {"PointGeometry", "LineGeometry", "PolygonGeometry"}

TemporalUnits == {"TemporalUnknownUnit", "TemporalSeconds", "TemporalMilliseconds"}

\* attribute values of the identifier field: NULL or a small integer
NullId == [null |-> TRUE, v |-> 0]
IdValues == {NullId} \cup {[null |-> FALSE, v |-> i] : i \in 1..2}

\* raw timestamp values: the smallest and largest integers of 1 digit and of
\* each digit count from one below the threshold up to MaxDigits, the two values of the documentation's example,
\* zero and two negative values
OneZeros(n) == <<1>> \o Repeat(0, n - 1)
Nines(n) == Repeat(9, n)
DigitLengths == {1} \cup ((UNIX_TIMESTAMP_UNIT_THRESHOLD - 1)..MaxDigits)
Example10 == <<1, 7>> \o Repeat(0, 8)
Example13 == <<1, 7>> \o Repeat(0, 11)
TimestampValues ==
    {Num(FALSE, OneZeros(n)) : n \in DigitLengths}
        \cup {Num(FALSE, Nines(n)) : n \in DigitLengths}
        \cup {Num(FALSE, Example10), Num(FALSE, Example13), Num(FALSE, <<0>>),
              Num(TRUE, <<1>>), Num(TRUE, OneZeros(MaxDigits))}

\* the attributes of one record; the feature id and the point are given to
\* it by its position in the layer (MakeFeatures)
Attributes == [id : IdValues, timestamp : TimestampValues]

MakeFeature(fid, a) ==
    [fid |-> fid, id |-> a.id, timestamp |-> a.timestamp,
     point |-> [x |-> fid, y |-> 0], width |-> 2, length |-> 4, height |-> 1]

MakeFeatures(as) == [i \in 1..Len(as) |-> MakeFeature(i, as[i])]

AttributeLists == UNION {[1..n -> Attributes] : n \in 1..MaxRecords}

NumericFields == [f \in FieldNames |-> "integer"]

\* layers that exercise validation: every combination of validity, geometry
\* type, presence of records and field types
ValidationLayers ==
    {[isValid |-> v, geometryType |-> g, fields |-> fs, features |-> MakeFeatures(as),
      mapUnits |-> "DistanceMeters"] :
        v \in BOOLEAN, g \in GeometryTypes, fs \in [FieldNames -> FieldTypes],
        as \in {<<>>, <<[id |-> [null |-> FALSE, v |-> 1], timestamp |-> Num(FALSE, Example10)]>>}}

\* layers that pass validation, with every list of up to MaxRecords records
RecordLayers ==
    {[isValid |-> TRUE, geometryType |-> "PointGeometry", fields |-> NumericFields,
      features |-> MakeFeatures(as), mapUnits |-> "DistanceMeters"] :
        as \in AttributeLists}

Layers == ValidationLayers \cup RecordLayers

-----------------------------------------------------------------------------
(* Validation *)

\* is_field_valid without the type check of lines 196-199
is_field_valid_exists_only(l, field_name, accepted_types) ==
    l.fields[field_name] # "absent"

is_field_valid(l, field_name, accepted_types) ==
    IF l.fields[field_name] = "absent" THEN FALSE
    ELSE IF accepted_types = {} THEN TRUE
    ELSE l.fields[field_name] \in accepted_types

Raise(e) == [ret |-> "none", exc |-> e]

Return(v) == [ret |-> v, exc |-> NoException]

is_valid(l) ==
    IF ~l.isValid
        THEN Raise(InvalidLayerException("Layer is not valid."))
    ELSE IF l.geometryType # "PointGeometry"
        THEN Raise(InvalidLayerException("Layer is not a point layer."))
    ELSE IF l.features = <<>>
        THEN Raise(InvalidLayerException("Layer has no features."))
    ELSE IF ~is_field_valid(l, id_field, {})
        THEN Raise(InvalidLayerException("Id field either not found or of incorrect type."))
    ELSE IF ~is_field_valid(l, timestamp_field, {"integer", "double"})
        THEN Raise(InvalidLayerException("Timestamp field either not found or of incorrect type."))
    ELSE IF ~is_field_valid(l, width_field, {"integer", "double"})
        THEN Raise(InvalidLayerException("Width field either not found or of incorrect type."))
    ELSE IF ~is_field_valid(l, length_field, {"integer", "double"})
        THEN Raise(InvalidLayerException("Length field either not found or of incorrect type."))
    ELSE IF ~is_field_valid(l, height_field, {"integer", "double"})
        THEN Raise(InvalidLayerException("Height field either not found or of incorrect type."))
    ELSE Return("True")

-----------------------------------------------------------------------------
(* Timestamp-unit inference *)

\* int(log10(num)) + 1: log10 raises ValueError for num <= 0; for a positive
\* integer of up to 15 digits the float result truncates to the digit count - 1
digits_in_timestamp_int(num) ==
    IF num.neg \/ IsZero(num)
    THEN [exc |-> ValueError("math domain error"), value |-> 0]
    ELSE [exc |-> NoException, value |-> Len(num.digits)]

\* QgsVectorLayer.getFeature(1): the record whose feature id is 1
getFeature(l, fid) == CHOOSE f \in {l.features[i] : i \in DOMAIN l.features} : f.fid = fid

\* lines 69-80: the unit inferred from the record with feature id 1
infer_timestamp_units(l) ==
    LET first_feature == getFeature(l, 1)
        timestamp == first_feature.timestamp
        d == digits_in_timestamp_int(timestamp)
    IN  IF d.exc # NoException THEN [exc |-> d.exc, value |-> "TemporalUnknownUnit"]
        ELSE IF d.value >= UNIX_TIMESTAMP_UNIT_THRESHOLD
            THEN [exc |-> NoException, value |-> "TemporalMilliseconds"]
        ELSE [exc |-> NoException, value |-> "TemporalSeconds"]

-----------------------------------------------------------------------------
(* create_trajectories *)

\* QgsVectorLayer.uniqueValues(id_field_idx): the distinct attribute values,
\* NULL included
uniqueValues(l) == {l.features[i].id : i \in DOMAIN l.features}

\* the filter expression '"<id_field>" = <identifier>': a comparison with NULL
\* is NULL, and a record is selected only when the expression is true
ExpressionMatches(f, identifier) ==
    ~f.id.null /\ ~identifier.null /\ f.id.v = identifier.v

\* insert f into a list sorted by (timestamp, rank of the feature id)
RECURSIVE InsertOrdered(_, _, _)
InsertOrdered(f, sorted, rank) ==
    IF sorted = <<>> THEN <<f>>
    ELSE LET h == Head(sorted)
             before == \/ NumLess(f.timestamp, h.timestamp)
                       \/ /\ f.timestamp = h.timestamp
                          /\ rank[f.fid] < rank[h.fid]
         IN  IF before THEN <<f>> \o sorted
             ELSE <<h>> \o InsertOrdered(f, Tail(sorted), rank)

RECURSIVE OrderBy(_, _)
OrderBy(feats, rank) ==
    IF feats = <<>> THEN <<>>
    ELSE InsertOrdered(Head(feats), OrderBy(Tail(feats), rank), rank)

\* layer.getFeatures(request): the records the expression selects, ascending
\* by the timestamp field; the request names no second key, so the order of
\* records with equal timestamps is the provider's (rank)
getFeatures(l, identifier, rank) ==
    OrderBy(SelectSeq(l.features, LAMBDA f : ExpressionMatches(f, identifier)), rank)

\* timestamp / 1000 when the unit is milliseconds: a decimal number kept as
\* sign, integer digits and three fractional digits
Zeros3 == <<0, 0, 0>>
ConvertTimestamp(raw, units) ==
    IF units = "TemporalMilliseconds"
    THEN LET n == Len(raw.digits)
         IN  IF n <= 3
             THEN [neg |-> raw.neg, int |-> <<0>>,
                   frac |-> Repeat(0, 3 - n) \o raw.digits]
             ELSE [neg |-> raw.neg, int |-> SubSeq(raw.digits, 1, n - 3),
                   frac |-> SubSeq(raw.digits, n - 2, n)]
    ELSE [neg |-> raw.neg, int |-> raw.digits, frac |-> Zeros3]

\* datetime.fromtimestamp(t, tz=utc) accepts the instants of years 1..9999,
\* -62135596800 <= t < 253402300800, and raises ValueError outside
FirstSecondAfterMaxYear == <<2, 5, 3, 4, 0, 2, 3, 0, 0, 8, 0, 0>>
SecondsBeforeEpochOfMinYear == <<6, 2, 1, 3, 5, 5, 9, 6, 8, 0, 0>>
fromtimestamp(t) ==
    LET inRange ==
            IF t.neg
            THEN \/ MagLess(t.int, SecondsBeforeEpochOfMinYear)
                 \/ t.int = SecondsBeforeEpochOfMinYear /\ t.frac = Zeros3
            ELSE MagLess(t.int, FirstSecondAfterMaxYear)
    IN  IF inRange THEN [exc |-> NoException, value |-> t]
        ELSE [exc |-> ValueError("year is out of range"), value |-> t]

\* lines 139-153: the loop over the selected records
RECURSIVE BuildNodes(_, _, _)
BuildNodes(features, units, nodes) ==
    IF features = <<>> THEN [exc |-> NoException, nodes |-> nodes]
    ELSE LET feature == Head(features)
             dt == fromtimestamp(ConvertTimestamp(feature.timestamp, units))
             node == TrajectoryNode(<<feature.point, dt.value, feature.width,
                                      feature.length, feature.height>>)
         IN  IF dt.exc # NoException THEN [exc |-> dt.exc, nodes |-> nodes]
             ELSE IF node.exc # NoException THEN [exc |-> node.exc, nodes |-> nodes]
             ELSE BuildNodes(Tail(features), units, Append(nodes, node.value))

\* lines 128-155: the loop over the identifiers, visited in the order ids
RECURSIVE BuildTrajectories(_, _, _, _, _)
BuildTrajectories(l, units, ids, rank, built) ==
    IF ids = <<>> THEN [exc |-> NoException, trajectories |-> built]
    ELSE LET b == BuildNodes(getFeatures(l, Head(ids), rank), units, <<>>)
             t == Trajectory(<<b.nodes, "self">>)
         IN  IF b.exc # NoException THEN [exc |-> b.exc, trajectories |-> built]
             ELSE IF t.exc # NoException THEN [exc |-> t.exc, trajectories |-> built]
             ELSE BuildTrajectories(l, units, Tail(ids), rank, Append(built, t.value))

\* create_trajectories: what it stores in self.__trajectories, or what it raises
create_trajectories(l, units, ids, rank) ==
    BuildTrajectories(l, units, ids, rank, <<>>)

\* the orders in which a set can be iterated
IterationOrders(S) ==
    {o \in [1..Cardinality(S) -> S] : \A i, j \in DOMAIN o : i # j => o[i] # o[j]}

\* the orders a provider can give the records
Ranks(l) == IterationOrders(DOMAIN l.features)

-----------------------------------------------------------------------------
(* TrajectoryLayer.__init__ *)

Init ==
    /\ layer \in Layers
    /\ timestamp_unit \in TemporalUnits
    /\ map_units = "DistanceUnknownUnit"
    /\ timestamp_units = timestamp_unit
    /\ trajectories = <<>>
    /\ is_valid_ret = "none"
    /\ exception = NoException
    /\ sampled = FALSE
    /\ pc = "is_valid"

\* line 65: if self.is_valid()
Validate ==
    /\ pc = "is_valid"
    /\ LET r == is_valid(layer)
       IN  /\ is_valid_ret' = r.ret
           /\ exception' = r.exc
           /\ pc' = IF r.exc # NoException THEN "raised"
                    ELSE IF r.ret = "True" THEN "infer" ELSE "create"
    /\ UNCHANGED <<layer, timestamp_unit, map_units, timestamp_units, trajectories, sampled>>

\* lines 66-80: map units and, when no unit was supplied, the inference
InferUnits ==
    /\ pc = "infer"
    /\ map_units' = layer.mapUnits
    /\ IF timestamp_units = "TemporalUnknownUnit"
       THEN LET u == infer_timestamp_units(layer)
            IN  /\ sampled' = TRUE
                /\ timestamp_units' = u.value
                /\ exception' = u.exc
                /\ pc' = IF u.exc # NoException THEN "raised" ELSE "create"
       ELSE /\ pc' = "create"
            /\ UNCHANGED <<sampled, timestamp_units, exception>>
    /\ UNCHANGED <<layer, timestamp_unit, trajectories, is_valid_ret>>

\* lines 82-83: self.__trajectories = () and self.create_trajectories()
CreateTrajectories ==
    /\ pc = "create"
    /\ \E ids \in IterationOrders(uniqueValues(layer)), rank \in Ranks(layer) :
          LET r == create_trajectories(layer, timestamp_units, ids, rank)
          IN  /\ exception' = r.exc
              /\ trajectories' = IF r.exc = NoException THEN r.trajectories ELSE <<>>
              /\ pc' = IF r.exc = NoException THEN "done" ELSE "raised"
    /\ UNCHANGED <<layer, timestamp_unit, map_units, timestamp_units, is_valid_ret, sampled>>

Next == Validate \/ InferUnits \/ CreateTrajectories

Spec == Init /\ [][Next]_vars

-----------------------------------------------------------------------------
(* Properties *)

Terminal == pc \in {"done", "raised"}

NumericTypes == {"integer", "double"}

\* the eight preconditions of a source, in the documented order
Preconditions(l) ==
    <<l.isValid,
      l.geometryType = "PointGeometry",
      Len(l.features) > 0,
      l.fields[id_field] # "absent",
      l.fields[timestamp_field] \in NumericTypes,
      l.fields[width_field] \in NumericTypes,
      l.fields[length_field] \in NumericTypes,
      l.fields[height_field] \in NumericTypes>>

PreconditionMessages ==
    <<"Layer is not valid.",
      "Layer is not a point layer.",
      "Layer has no features.",
      "Id field either not found or of incorrect type.",
      "Timestamp field either not found or of incorrect type.",
      "Width field either not found or of incorrect type.",
      "Length field either not found or of incorrect type.",
      "Height field either not found or of incorrect type.">>

Failing(l) == {i \in 1..8 : ~Preconditions(l)[i]}

FirstFailing(l) == CHOOSE i \in Failing(l) : \A j \in Failing(l) : i <= j

ValidSource == Failing(layer) = {}

AllRecords == {layer.features[i] : i \in DOMAIN layer.features}

\* a valid source on which neither the inference nor the conversion to a
\* datetime can fail: the sample is positive when a unit has to be inferred,
\* and every timestamp is an instant of the years 1..9999 in the unit in effect
WellFormedSource ==
    /\ ValidSource
    /\ timestamp_unit = "TemporalUnknownUnit" =>
          LET v == getFeature(layer, 1).timestamp IN ~v.neg /\ ~IsZero(v)
    /\ pc \notin {"is_valid", "infer"}
    /\ \A r \in AllRecords :
          fromtimestamp(ConvertTimestamp(r.timestamp, timestamp_units)).exc = NoException

\* a well-formed source in which every record has an identifier value
PlainSource == WellFormedSource /\ \A r \in AllRecords : ~r.id.null

RecordsOf(identifier) ==
    {layer.features[i] : i \in {k \in DOMAIN layer.features : layer.features[k].id = identifier}}

\* the record a node was built from (a record's point carries its feature id)
RecordOfNode(node) == layer.features[node[1].x]

NodesOf(t) == {t.nodes[k] : k \in DOMAIN t.nodes}

\* C1: for every plain source, construction yields as many trajectories as
\* there are distinct identifier values, and each identifier has a trajectory
\* whose nodes are one-to-one the records carrying that identifier.
C1_GroupingCorrectness ==
    (Terminal /\ PlainSource) =>
        /\ pc = "done"
        /\ Len(trajectories) = Cardinality(uniqueValues(layer))
        /\ \A identifier \in uniqueValues(layer) :
              \E i \in DOMAIN trajectories :
                  /\ {RecordOfNode(n) : n \in NodesOf(trajectories[i])} = RecordsOf(identifier)
                  /\ Len(trajectories[i].nodes) = Cardinality(RecordsOf(identifier))

\* C2: for every plain source, every produced trajectory lists its records in
\* ascending timestamp order, records with equal timestamps in source order.
C2_StableAscendingOrder ==
    (Terminal /\ PlainSource) =>
        /\ pc = "done"
        /\ \A i \in DOMAIN trajectories :
              \A k \in 1..(Len(trajectories[i].nodes) - 1) :
                  LET a == RecordOfNode(trajectories[i].nodes[k])
                      b == RecordOfNode(trajectories[i].nodes[k + 1])
                  IN  /\ NumLeq(a.timestamp, b.timestamp)
                      /\ a.timestamp = b.timestamp => a.fid < b.fid

StoredTimestamps(record) ==
    {n[2] : n \in {m \in UNION {NodesOf(trajectories[i]) : i \in DOMAIN trajectories} :
                      RecordOfNode(m) = record}}

\* C3: with no unit supplied, every record of a plain source is stored divided
\* by 1000 when its raw value has 13 or more digits and unchanged otherwise.
C3_UnitInferencePerRecord ==
    (Terminal /\ PlainSource /\ timestamp_unit = "TemporalUnknownUnit") =>
        /\ pc = "done"
        /\ \A r \in AllRecords :
              StoredTimestamps(r) =
                  {ConvertTimestamp(r.timestamp,
                      IF Len(r.timestamp.digits) >= UNIX_TIMESTAMP_UNIT_THRESHOLD
                      THEN "TemporalMilliseconds" ELSE "TemporalSeconds")}

\* C4: an invalid source raises InvalidLayerException before
\* create_trajectories runs and leaves no trajectory; a plain source gets
\* all its trajectories.
C4_ValidationGating ==
    /\ ~ValidSource => pc \in {"is_valid", "raised"} /\ trajectories = <<>>
    /\ (Terminal /\ ~ValidSource) => exception.type = "InvalidLayerException"
    /\ (Terminal /\ PlainSource) =>
          pc = "done" /\ Len(trajectories) = Cardinality(uniqueValues(layer))

HasRecords(identifier) ==
    \E r \in AllRecords : ExpressionMatches(r, identifier)

\* C5: for every well-formed source, construction yields one trajectory per
\* identifier that selects at least one record, each with at least one node;
\* an identifier selecting no record yields no trajectory.
C5_NoEmptyTrajectory ==
    (Terminal /\ WellFormedSource) =>
        /\ pc = "done"
        /\ \A i \in DOMAIN trajectories : trajectories[i].nodes # <<>>
        /\ Len(trajectories) = Cardinality({d \in uniqueValues(layer) : HasRecords(d)})

\* C6: construction of a plain source completes, and a further call of create_trajectories produces
\* a collection equal, position by position, to the stored one, and stores it
\* in place of the first.
C6_Idempotent ==
    (Terminal /\ PlainSource) =>
        /\ pc = "done"
        /\ \A ids \in IterationOrders(uniqueValues(layer)), rank \in Ranks(layer) :
              LET again == create_trajectories(layer, timestamp_units, ids, rank)
              IN  /\ again.exc = NoException
                  /\ Len(again.trajectories) = Len(trajectories)
                  /\ \A i \in DOMAIN trajectories :
                        \E j \in DOMAIN again.trajectories :
                            again.trajectories[j] = trajectories[i]

\* C7: on a plain source TrajectoryNode and Trajectory accept the components create_trajectories
\* passes (point, timestamp, width, length, height; node tuple and layer), and
\* every built node carries its record's point, converted timestamp and
\* dimensions.
C7_NodeContent ==
    (Terminal /\ PlainSource) =>
        /\ exception.type # "TypeError"
        /\ pc = "done" =>
              \A i \in DOMAIN trajectories : \A n \in NodesOf(trajectories[i]) :
                  LET r == RecordOfNode(n)
                  IN  n = <<r.point, ConvertTimestamp(r.timestamp, timestamp_units),
                            r.width, r.length, r.height>>

\* C8: is_valid raises exactly the InvalidLayerException of the first failing
\* precondition in the order layer-valid, point geometry, has records, id
\* field exists, timestamp / width / length / height field numeric; it returns
\* True exactly when all eight hold and never returns False.
C8_ValidationPrecedence ==
    pc # "is_valid" =>
        /\ is_valid_ret # "False"
        /\ ValidSource <=> is_valid_ret = "True"
        /\ ~ValidSource =>
              /\ pc = "raised"
              /\ is_valid_ret = "none"
              /\ exception = InvalidLayerException(PreconditionMessages[FirstFailing(layer)])

\* a source whose timestamp and width fields both fail: the timestamp message wins
C8_Witness ==
    /\ pc = "raised"
    /\ Failing(layer) = {5, 6}
    /\ exception.msg = "Timestamp field either not found or of incorrect type."

\* C9: with an explicit unit (seconds or milliseconds) and a plain
\* source no sample is read,
\* timestamp_units() is the supplied unit, and every record's timestamp is
\* stored divided by 1000 exactly when that unit is milliseconds.
C9_ExplicitUnit ==
    (Terminal /\ PlainSource /\ timestamp_unit # "TemporalUnknownUnit") =>
        /\ ~sampled
        /\ timestamp_units = timestamp_unit
        /\ pc = "done"
        /\ \A r \in AllRecords :
              StoredTimestamps(r) = {ConvertTimestamp(r.timestamp, timestamp_unit)}

\* C10: with no unit supplied, for every non-zero sample timestamp v of a valid
\* source the inference does not abort and yields milliseconds exactly when
\* |v| has 13 or more digits, seconds otherwise.
C10_DigitCountDomain ==
    LET v == getFeature(layer, 1).timestamp
    IN  (ValidSource /\ timestamp_unit = "TemporalUnknownUnit"
            /\ pc \notin {"is_valid", "infer"} /\ ~IsZero(v)) =>
            /\ sampled
            /\ timestamp_units =
                  IF Len(v.digits) >= UNIX_TIMESTAMP_UNIT_THRESHOLD
                  THEN "TemporalMilliseconds" ELSE "TemporalSeconds"

=============================================================================
